---- MODULE Spec2Model ----
(***************************************************************************)
(* A model of lib/helpers.js: the watchdog-guarded plugin invocation       *)
(* (safePromise, callPlugin), the compilation progress animation           *)
(* (getCompilationProgress) and the compilation summary line               *)
(* (generateCompilationLog).                                               *)
(*                                                                         *)
(* JavaScript runs every task to completion and drains the promise         *)
(* reactions (microtasks) it queued before the next timer callback can     *)
(* run, so each action below is one task together with its reactions.      *)
(* Timers fire when they are due: the clock does not move past a due       *)
(* timer, and two events due at the same instant may run in either order.  *)
(***************************************************************************)
EXTENDS Integers, Sequences, FiniteSets, TLC

\* ------------------------------------------------------------------ bounds
\* Concurrent invocations of the concurrent specification.
NumInv == 2
\* Clock steps per watchdog interval (the granularity of time).
TicksPerInterval == 2
\* The clock stops after this many watchdog intervals.
MaxIntervals == 3
\* The same for the concurrent specification.
ConcIntervals == 2

\* Ticks of the progress animation.
MaxTicks == 9
\* The inputs of the summary: the start of the pass, the source files, the
\* generated files, the assets, and the most source paths removed.
StartTime == 1
NumSources == 3
NumGenerated == 2
NumAssets == 2
MaxRemoved == 2

\* ------------------------------------------------------- program constants
warningLogInterval == 15000
animationLogInterval == 4000
oneSecond == 1000

VARIABLES
  now,        \* the clock, in ms
  timers,     \* the runtime's timer table: timer id -> timer
  inv,        \* the callPlugin invocations
  anim,       \* the closure of getCompilationProgress
  emitted,    \* the lines handed to the animation's logger
  logIn,      \* the arguments of generateCompilationLog
  logOut      \* what generateCompilationLog returned

vars == <<now, timers, inv, anim, emitted, logIn, logOut>>

\* --------------------------------------------------------------- JS values
Null == [t |-> "null", v |-> 0]
Undefined == [t |-> "undefined", v |-> 0]
Zero == [t |-> "number", v |-> 0]
ErrorOf(tag, i) == [t |-> "error", v |-> <<tag, i>>]
DataOf(tag, i) == [t |-> "object", v |-> <<tag, i>>]
PromiseValue == [t |-> "promise", v |-> 0]

\* JavaScript's ToBoolean on the values above.
Truthy(x) == /\ x.t \notin {"null", "undefined"}
             /\ ~(x.t = "number" /\ x.v = 0)

isPromise(x) == Truthy(x) /\ x.t = "promise"

\* ---------------------------------------------------------------- promises
NoPromise == [st |-> "none", v |-> Null]
Pending == [st |-> "pending", v |-> Null]
Resolved(x) == [st |-> "resolved", v |-> x]
Rejected(x) == [st |-> "rejected", v |-> x]
Settled(p) == p.st \in {"resolved", "rejected"}

\* ------------------------------------------------------------------ timers
NoTimer == 0

\* setInterval / setTimeout: a new entry of the timer table; its id is the
\* entry's index.
SetTimer(tm, delay, msg, repeat) ==
  Append(tm, [live |-> TRUE, due |-> now + delay, fires |-> 0,
              msg |-> msg, every |-> IF repeat THEN delay ELSE 0])

NewTimerId(tm) == Len(tm) + 1

\* clearInterval / clearTimeout: no effect on an id that is not live.
ClearTimer(tm, id) ==
  IF id \in DOMAIN tm
    THEN [tm EXCEPT ![id] = [@ EXCEPT !.live = FALSE]]
    ELSE tm

NoneDue == \A t \in DOMAIN timers : timers[t].live => timers[t].due > now

\* The clock moves by this much at a time.
ClockStep == warningLogInterval \div TicksPerInterval

\* ------------------------------------------------------------- safePromise
ClearAllTimers(tm) == [t \in DOMAIN tm |-> [tm[t] EXCEPT !.live = FALSE]]

\* A slip: the rejection handler forgets to stop the timer.
SafePromiseRejectedNoClear(tm, warn, reason) ==
  [timers |-> tm, out |-> Rejected(reason)]

\* A slip: `warn` shared by every call, so a settlement stops every timer.
SafePromiseFulfilledShared(tm, warn, value) ==
  [timers |-> ClearAllTimers(tm), out |-> Resolved(value)]

\* value => { clearInterval(warn); return value; }
SafePromiseFulfilled(tm, warn, value) ==
  [timers |-> ClearTimer(tm, warn), out |-> Resolved(value)]

\* reason => { clearInterval(warn); throw reason; }
SafePromiseRejected(tm, warn, reason) ==
  [timers |-> ClearTimer(tm, warn), out |-> Rejected(reason)]

\* The reaction of safePromise's promise.then(...) to the guarded promise p:
\* nothing while p is pending.
SafePromiseReact(tm, warn, p) ==
  CASE p.st = "resolved" -> SafePromiseFulfilled(tm, warn, p.v)
    [] p.st = "rejected" -> SafePromiseRejected(tm, warn, p.v)
    [] OTHER -> [timers |-> tm, out |-> Pending]

\* safePromise(promise, intervalTime, timeoutMessage): the timer it starts
\* and what the promise it returns is once the reactions have run.
safePromise(tm, promise, intervalTime, timeoutMessage) ==
  LET warn == NewTimerId(tm)
      re == SafePromiseReact(SetTimer(tm, intervalTime, timeoutMessage, TRUE),
                             warn, promise)
  IN  [warn |-> warn, timers |-> re.timers, out |-> re.out]

\* -------------------------------------------------------------- callPlugin
Plugins ==
  { [name |-> "DirectPlugin", length |-> 1],
    [name |-> "CallbackPlugin", length |-> 3],
    [name |-> "VariadicPlugin", length |-> 0] }

Methods == {"compile"}

File(i) == [path |-> "app/file" \o ToString(i) \o ".js", data |-> DataOf("source", i)]

CompletionCallback == [t |-> "function", v |-> 0]

\* const args = fn.length === 1 ? [file] : [file.data, file.path];
\* and the completion callback pushed after them.
PluginArgs(plugin, file) ==
  Append(IF plugin.length = 1
           THEN <<[t |-> "file", v |-> file.path]>>
           ELSE <<file.data, [t |-> "string", v |-> file.path]>>,
         CompletionCallback)

\* A slip: the completion callback never looks at `error`.
CompletionCallbackIgnoresError(promise, error, data) ==
  IF promise.st # "pending" THEN promise ELSE Resolved(data)

\* (error, data) => { if (error) reject(error); else resolve(data); }
\* on a promise that is settled already, neither has an effect.
CompletionCallbackEffect(promise, error, data) ==
  IF promise.st # "pending" THEN promise
  ELSE IF Truthy(error) THEN Rejected(error) ELSE Resolved(data)

TimeoutMessage(plugin, method, file) ==
  plugin.name \o " is taking too long to " \o method \o " @ " \o file.path

\* isPromise(result) ? result : promise
Guarded(r) == IF r.watched = "result" THEN r.result ELSE r.promise

NoCall == <<>>
IdleInv ==
  [phase |-> "idle", plugin |-> [name |-> "", length |-> 0], method |-> "",
   args |-> <<>>, thrown |-> Null, ret |-> Undefined, result |-> NoPromise,
   promise |-> NoPromise, firstCb |-> NoCall, watched |-> "none",
   out |-> NoPromise, warn |-> NoTimer, startedAt |-> 0, settledAt |-> 0]

\* What a hook does while it is being called: it throws, or it returns `ret`
\* after calling the completion callback (`cb`) or not.
SyncBehaviours(i) ==
  [throws : {TRUE}, error : {ErrorOf("thrown", i)}, cb : {NoCall}, ret : {Undefined}]
  \cup
  [throws : {FALSE}, error : {Null},
   cb : {NoCall, <<Null, DataOf("cbdata", i)>>, <<ErrorOf("cberror", i), Undefined>>},
   ret : {Undefined, DataOf("returned", i), PromiseValue}]

CallbackArgs(i) ==
  { <<Null, DataOf("cbdata", i)>>, <<ErrorOf("cberror", i), Undefined>>,
    <<Zero, DataOf("cbdata", i)>> }

Outcomes(i) == { Resolved(DataOf("awaited", i)), Rejected(ErrorOf("rejected", i)) }

\* The invocation after the reactions to its guarded promise have run.
AfterReaction(r, tm) ==
  LET re == SafePromiseReact(tm, r.warn, Guarded(r))
  IN  [inv |-> [r EXCEPT !.out = re.out,
                         !.settledAt = IF Settled(re.out) THEN now ELSE @],
       timers |-> re.timers]

\* callPlugin(plugin, method, file) with hook behaviour b.
callPlugin(i, plugin, method, b) ==
  /\ inv[i].phase = "idle"
  /\ LET file == File(i)
         args == PluginArgs(plugin, file)
         base == [inv[i] EXCEPT !.plugin = plugin, !.method = method,
                                !.args = args, !.startedAt = now]
     IN  IF b.throws
           \* fn.apply throws: callPlugin throws before it reaches safePromise
           THEN /\ inv' = [inv EXCEPT ![i] =
                             [base EXCEPT !.phase = "threw", !.thrown = b.error,
                                          !.promise = Pending]]
                /\ timers' = timers
           ELSE LET promise == IF b.cb = NoCall THEN Pending
                               ELSE CompletionCallbackEffect(Pending, b.cb[1], b.cb[2])
                    result == IF isPromise(b.ret) THEN Pending ELSE NoPromise
                    r == [base EXCEPT !.phase = "called", !.ret = b.ret,
                                      !.result = result, !.promise = promise,
                                      !.firstCb = b.cb,
                                      !.watched = IF isPromise(b.ret) THEN "result"
                                                  ELSE "promise"]
                    sp == safePromise(timers, Guarded(r), warningLogInterval,
                                      TimeoutMessage(plugin, method, file))
                IN  /\ inv' = [inv EXCEPT ![i] =
                                 [r EXCEPT !.warn = sp.warn, !.out = sp.out,
                                           !.settledAt = IF Settled(sp.out)
                                                           THEN now ELSE @]]
                    /\ timers' = sp.timers
  /\ UNCHANGED <<now, anim, emitted, logIn, logOut>>

\* The hook calls the completion callback from a later task.
CallbackFires(i, cb) ==
  /\ inv[i].phase = "called"
  /\ LET r == [inv[i] EXCEPT
                 !.promise = CompletionCallbackEffect(@, cb[1], cb[2]),
                 !.firstCb = IF @ = NoCall THEN cb ELSE @]
         after == IF inv[i].out.st = "pending"
                    THEN AfterReaction(r, timers)
                    ELSE [inv |-> r, timers |-> timers]
     IN  /\ inv' = [inv EXCEPT ![i] = after.inv]
         /\ timers' = after.timers
  /\ UNCHANGED <<now, anim, emitted, logIn, logOut>>

\* The awaitable the hook returned settles.
ResultSettles(i, outcome) ==
  /\ inv[i].phase = "called"
  /\ inv[i].result.st = "pending"
  /\ LET r == [inv[i] EXCEPT !.result = outcome]
         after == AfterReaction(r, timers)
     IN  /\ inv' = [inv EXCEPT ![i] = after.inv]
         /\ timers' = after.timers
  /\ UNCHANGED <<now, anim, emitted, logIn, logOut>>

\* setInterval(() => { logger.warn(timeoutMessage); }, intervalTime) fires:
\* the timer's `fires` counts the warnings logged with its message.
WarnFires(t) ==
  /\ t \in DOMAIN timers
  /\ timers[t].live
  /\ timers[t].every > 0
  /\ timers[t].due = now
  /\ timers' = [timers EXCEPT ![t] = [@ EXCEPT !.fires = @ + 1,
                                               !.due = now + timers[t].every]]
  /\ UNCHANGED <<now, inv, anim, emitted, logIn, logOut>>

\* Time passes, never past a timer that is due.
Tick(horizon) ==
  /\ NoneDue
  /\ now + ClockStep <= horizon
  /\ now' = now + ClockStep
  /\ UNCHANGED <<timers, inv, anim, emitted, logIn, logOut>>

IdleAnim ==
  [state |-> "idle", iterations |-> 0, timeout |-> NoTimer,
   cancelled |-> FALSE, cancelledAt |-> 0]
NoLog == [done |-> FALSE, diff |-> 0, generated |-> <<>>, text |-> ""]

InitInvocations(n) ==
  /\ now = 0
  /\ timers = <<>>
  /\ inv = [i \in 1..n |-> IdleInv]
  /\ anim = IdleAnim
  /\ emitted = <<>>
  /\ logIn = <<>>
  /\ logOut = NoLog

\* One invocation, every hook behaviour, called at any time.
NextInvoke ==
  \/ \E p \in Plugins, m \in Methods, b \in SyncBehaviours(1) : callPlugin(1, p, m, b)
  \/ \E cb \in CallbackArgs(1) : CallbackFires(1, cb)
  \/ \E o \in Outcomes(1) : ResultSettles(1, o)
  \/ \E t \in DOMAIN timers : WarnFires(t)
  \/ Tick(MaxIntervals * warningLogInterval)

InitInvoke == InitInvocations(1)

SpecInvoke == InitInvoke /\ [][NextInvoke]_vars

\* Several invocations outstanding at once, all called at the start: the odd
\* ones of a direct-style hook that returns a pending awaitable, the even
\* ones of a callback-style hook, each settled through its own channel.
ConcBehaviours(i) ==
  [throws : {FALSE}, error : {Null}, cb : {NoCall}, ret : {Undefined, PromiseValue}]

ConcCallbackArgs(i) ==
  { <<Null, DataOf("cbdata", i)>>, <<ErrorOf("cberror", i), Undefined>> }

NextConcurrent ==
  \/ \E i \in 1..NumInv, p \in Plugins, m \in Methods :
      \E b \in ConcBehaviours(i) :
        /\ now = 0
        /\ p.length = (IF i % 2 = 1 THEN 1 ELSE 3)
        /\ (p.length = 1) = isPromise(b.ret)
        /\ callPlugin(i, p, m, b)
  \/ \E i \in 1..NumInv :
      \E cb \in ConcCallbackArgs(i) :
        /\ inv[i].watched = "promise"
        /\ inv[i].out.st = "pending"
        /\ CallbackFires(i, cb)
  \/ \E i \in 1..NumInv : \E o \in Outcomes(i) : ResultSettles(i, o)
  \/ \E t \in DOMAIN timers : WarnFires(t)
  \/ Tick(ConcIntervals * warningLogInterval)

InitConcurrent == InitInvocations(NumInv)

SpecConcurrent == InitConcurrent /\ [][NextConcurrent]_vars

\* -------------------------------------------------- getCompilationProgress
\* What the caller passes as timePassed (0 also stands for undefined).
TimesPassed == {0, 1000, animationLogInterval, animationLogInterval + 1000}

\* The handle getCompilationProgress returns: () => clearTimeout(timeout),
\* with the note that it was invoked and how many lines had been emitted.
CancelHandle(a, tm, lines) ==
  [timers |-> ClearTimer(tm, a.timeout),
   anim |-> [a EXCEPT !.cancelled = TRUE,
                      !.cancelledAt = IF a.cancelled THEN @ ELSE lines]]

\* getCompilationProgress(timePassed, logger)
getCompilationProgress(timePassed) ==
  /\ anim.state = "idle"
  /\ LET initRunIn0 == IF timePassed # 0
                         THEN animationLogInterval - timePassed
                         ELSE animationLogInterval
         initRunIn == IF initRunIn0 < 0 THEN 0 ELSE initRunIn0
     IN  /\ timers' = SetTimer(timers, initRunIn, "", FALSE)
         /\ anim' = [anim EXCEPT !.state = "started", !.iterations = 0,
                                 !.timeout = NewTimerId(timers)]
  /\ UNCHANGED <<now, inv, emitted, logIn, logOut>>

\* '...'.slice(0, n)
Dots(n) == SubSeq("...", 1, n)

\* The line writeWithDots composes at a given count of iterations.
ProgressLine(iterations) ==
  LET msg == IF iterations = 7 THEN "still compiling" ELSE "compiling"
  IN  msg \o Dots(iterations % 4)

\* The timer t fires and runs writeWithDots; the logger it calls may invoke
\* the cancel handle (loggerCancels).
writeWithDots(t, loggerCancels) ==
  /\ anim.state = "started"
  /\ anim.iterations < MaxTicks
  /\ t \in DOMAIN timers
  /\ timers[t].live
  /\ timers[t].every = 0
  /\ timers[t].due = now
  /\ LET fired == [timers EXCEPT ![t] = [@ EXCEPT !.live = FALSE, !.fires = @ + 1]]
         line == ProgressLine(anim.iterations)
         out == Append(emitted, line)
         c == IF loggerCancels
                THEN CancelHandle(anim, fired, Len(out))
                ELSE [timers |-> fired, anim |-> anim]
     IN  /\ emitted' = out
         /\ timers' = SetTimer(c.timers, animationLogInterval, "", FALSE)
         /\ anim' = [c.anim EXCEPT !.iterations = @ + 1,
                                   !.timeout = NewTimerId(c.timers)]
  /\ UNCHANGED <<now, inv, logIn, logOut>>

\* The caller invokes the cancel handle between two tasks.
Cancel ==
  /\ anim.state = "started"
  /\ LET c == CancelHandle(anim, timers, Len(emitted))
     IN  /\ timers' = c.timers
         /\ anim' = c.anim
  /\ UNCHANGED <<now, inv, emitted, logIn, logOut>>

LiveTimers == {t \in DOMAIN timers : timers[t].live}

\* Time passes until the next timer is due.
AwaitTimer ==
  /\ NoneDue
  /\ LiveTimers # {}
  /\ \E t \in LiveTimers :
       /\ \A u \in LiveTimers : timers[t].due <= timers[u].due
       /\ now' = timers[t].due
  /\ UNCHANGED <<timers, inv, anim, emitted, logIn, logOut>>

InitProgress ==
  /\ now = 0
  /\ timers = <<>>
  /\ inv = <<>>
  /\ anim = IdleAnim
  /\ emitted = <<>>
  /\ logIn = <<>>
  /\ logOut = NoLog

NextProgress ==
  \/ \E tp \in TimesPassed : getCompilationProgress(tp)
  \/ \E t \in DOMAIN timers, c \in BOOLEAN : writeWithDots(t, c)
  \/ Cancel
  \/ AwaitTimer

SpecProgress == InitProgress /\ [][NextProgress]_vars

\* C4: the line of tick i is the message followed by (i mod 4) dots, the
\* message being "compiling" for ticks 0 to 6 and "still compiling" for
\* every tick from 7 on.
C4_LinesFollowTheTickIndex ==
  \A k \in 1..Len(emitted) :
    emitted[k] = (IF k - 1 >= 7 THEN "still compiling" ELSE "compiling")
                   \o Dots((k - 1) % 4)

\* C5: once the cancel handle has been invoked, whether between ticks or from
\* inside the logger, no further line is emitted and no timer is scheduled.
C5_NothingAfterCancel ==
  anim.cancelled => /\ Len(emitted) = anim.cancelledAt
                    /\ LiveTimers = {}

\* -------------------------------------------------- generateCompilationLog
\* The last component of a path; a path is the sequence of its components.
basename(p) == p[Len(p)]

\* const getName = file => basename(file.path);
getName(file) == basename(file.path)

Includes(seq, x) == \E k \in DOMAIN seq : seq[k] = x

\* sourceFile.compilationTime >= startTime
Touched(sourceFile, startTime) == sourceFile.compilationTime >= startTime

\* The body of generatedFile.sourceFiles.forEach, from source k on; acc holds
\* isChanged, locallyCompiledCount and compiled.
RECURSIVE EachSourceFile(_, _, _, _, _)
EachSourceFile(generatedFile, k, acc, startTime, dgen) ==
  IF k > Len(generatedFile.sourceFiles) THEN acc
  ELSE
    LET sourceFile == generatedFile.sourceFiles[k]
        sourceName == getName(sourceFile)
        a1 == IF Touched(sourceFile, startTime)
                THEN [isChanged |-> TRUE,
                      locallyCompiledCount |-> acc.locallyCompiledCount + 1,
                      compiled |-> IF ~Includes(acc.compiled, sourceName)
                                     THEN Append(acc.compiled, sourceName)
                                     ELSE acc.compiled]
                ELSE acc
        a2 == IF ~a1.isChanged /\ generatedFile \in dgen
                THEN [a1 EXCEPT !.isChanged = TRUE]
                ELSE a1
    IN  EachSourceFile(generatedFile, k + 1, a2, startTime, dgen)

\* The body of generatedFiles.forEach, from generated file g on; acc holds
\* generated, compiled and cachedCount.
RECURSIVE EachGeneratedFile(_, _, _, _, _)
EachGeneratedFile(generatedFiles, g, acc, startTime, dgen) ==
  IF g > Len(generatedFiles) THEN acc
  ELSE
    LET generatedFile == generatedFiles[g]
        len == Len(generatedFile.sourceFiles)
        inner == EachSourceFile(generatedFile, 1,
                   [isChanged |-> FALSE, locallyCompiledCount |-> 0,
                    compiled |-> acc.compiled], startTime, dgen)
        next == IF inner.isChanged
                  THEN [generated |-> Append(acc.generated, getName(generatedFile)),
                        compiled |-> inner.compiled,
                        cachedCount |-> acc.cachedCount + len - inner.locallyCompiledCount]
                  ELSE [acc EXCEPT !.compiled = inner.compiled]
    IN  EachGeneratedFile(generatedFiles, g + 1, next, startTime, dgen)

\* allAssets.filter(a => a.copyTime > startTime).map(getName)
RECURSIVE copied(_, _)
copied(allAssets, startTime) ==
  IF allAssets = <<>> THEN <<>>
  ELSE LET rest == copied(Tail(allAssets), startTime)
       IN  IF Head(allAssets).copyTime > startTime
             THEN <<getName(Head(allAssets))>> \o rest
             ELSE rest

\* A slip: the count without its noun.
generatedLogNoNoun(generated) ==
  CASE Len(generated) = 0 -> ""
    [] Len(generated) = 1 -> " into " \o generated[1]
    [] OTHER -> " into " \o ToString(Len(generated))

generatedLog(generated) ==
  CASE Len(generated) = 0 -> ""
    [] Len(generated) = 1 -> " into " \o generated[1]
    [] OTHER -> " into " \o ToString(Len(generated)) \o " files"

compiledLog(compiled, disposed) ==
  CASE Len(compiled) = 0 ->
         (CASE Len(disposed) = 0 -> ""
            [] Len(disposed) = 1 -> "removed " \o disposed[1]
            [] OTHER -> "removed " \o ToString(Len(disposed)))
    [] Len(compiled) = 1 -> "compiled " \o compiled[1]
    [] OTHER -> "compiled " \o ToString(Len(compiled))

\* A slip: the noun after the cached count, as for a single compiled file.
cachedLogNounLast(compiled, generated, cachedCount) ==
  IF cachedCount = 0 THEN (IF Len(compiled) <= 1 THEN "" ELSE " files")
  ELSE CASE Len(compiled) = 0 ->
              " and wrote " \o ToString(cachedCount) \o " cached"
                \o (IF Len(generated) > 1 THEN "" ELSE " files")
         [] OTHER ->
              " and " \o ToString(cachedCount) \o " cached "
                \o (IF cachedCount = 1 THEN "file" ELSE "files")

cachedLog(compiled, generated, cachedCount) ==
  IF cachedCount = 0 THEN (IF Len(compiled) <= 1 THEN "" ELSE " files")
  ELSE CASE Len(compiled) = 0 ->
              " and wrote " \o ToString(cachedCount) \o " cached"
                \o (IF Len(generated) > 1 THEN "" ELSE " files")
         [] Len(compiled) = 1 ->
              " and " \o ToString(cachedCount) \o " cached "
                \o (IF cachedCount = 1 THEN "file" ELSE "files")
         [] OTHER -> " files and " \o ToString(cachedCount) \o " cached"

assetsLog(copiedNames, compiled) ==
  CASE Len(copiedNames) = 0 -> ""
    [] Len(copiedNames) = 1 -> "copied " \o copiedNames[1]
    [] OTHER -> IF Len(compiled) # 0
                  THEN "copied " \o ToString(Len(copiedNames))
                  ELSE "copied " \o ToString(Len(copiedNames)) \o " files"

\* (diff / oneSecond).toFixed(1), for a diff that is not an odd multiple of 50
diffText(diff) ==
  IF diff > oneSecond
    THEN LET tenths == (diff + 50) \div 100
         IN  ToString(tenths \div 10) \o "." \o ToString(tenths % 10) \o " sec"
    ELSE ToString(diff) \o " ms"

\* generateCompilationLog at the time startTime + diff, with the list it
\* built of the generated files that changed.
generateCompilationLog(startTime, allAssets, generatedFiles, disposedFiles, diff) ==
  LET copiedNames == copied(allAssets, startTime)
      dgen == disposedFiles.generated
      acc == EachGeneratedFile(generatedFiles, 1,
               [generated |-> <<>>, compiled |-> <<>>, cachedCount |-> 0],
               startTime, dgen)
      disposed == disposedFiles.sourcePaths
      nonAssetsLog == compiledLog(acc.compiled, disposed)
                        \o cachedLog(acc.compiled, acc.generated, acc.cachedCount)
                        \o generatedLog(acc.generated)
      sep == IF nonAssetsLog # "" /\ Len(copiedNames) # 0 THEN ", " ELSE ""
      main == nonAssetsLog \o sep \o assetsLog(copiedNames, acc.compiled)
  IN  [done |-> TRUE, diff |-> diff, generated |-> acc.generated,
       text |-> (IF main # "" THEN main ELSE "compiled") \o " in " \o diffText(diff)]

\* The pass snapshots the summary is asked for: source files compiled before
\* the pass or at its start, generated files of any size, the first assets
\* copied after the start and the others at the start, at most one generated
\* file disposed, some source paths removed.
BaseNames == <<"a.js", "b.js">>
SourcePath(j) ==
  <<"app", "d" \o ToString((j - 1) \div Len(BaseNames)),
    BaseNames[((j - 1) % Len(BaseNames)) + 1]>>

\* Generated file g holds `size` source files, from source g on.
GeneratedFile(g, size, ctime) ==
  [path |-> <<"public", "out" \o ToString(g) \o ".js">>,
   sourceFiles |-> [k \in 1..size |->
                      LET j == ((g + k - 2) % NumSources) + 1
                      IN  [path |-> SourcePath(j), compilationTime |-> ctime[j]]]]

Diffs == {oneSecond, oneSecond + 234}

InitSummary ==
  /\ now = 0
  /\ timers = <<>>
  /\ inv = <<>>
  /\ anim = IdleAnim
  /\ emitted = <<>>
  /\ logOut = NoLog
  /\ \E ctime \in [1..NumSources -> {StartTime - 1, StartTime}],
        size \in [1..NumGenerated -> 0..NumSources],
        copies \in 0..NumAssets,
        removed \in 0..MaxRemoved :
       LET generatedFiles == [g \in 1..NumGenerated |-> GeneratedFile(g, size[g], ctime)]
       IN  \E disposedIdx \in {{}} \cup {{g} : g \in 1..NumGenerated} :
             logIn = [startTime |-> StartTime,
                      allAssets |-> [a \in 1..NumAssets |->
                                       [path |-> <<"assets", "img" \o ToString(a) \o ".png">>,
                                        copyTime |-> IF a <= copies THEN StartTime + 1
                                                     ELSE StartTime]],
                      generatedFiles |-> generatedFiles,
                      disposedFiles |->
                        [generated |-> {generatedFiles[g] : g \in disposedIdx},
                         sourcePaths |-> [r \in 1..removed |->
                                            "app/old" \o ToString(r) \o ".js"]]]

\* The one call of the pass; Date.now() is startTime + diff.
Summarize(diff) ==
  /\ ~logOut.done
  /\ logOut' = generateCompilationLog(logIn.startTime, logIn.allAssets,
                                      logIn.generatedFiles, logIn.disposedFiles, diff)
  /\ UNCHANGED <<now, timers, inv, anim, emitted, logIn>>

NextSummary == \E diff \in Diffs : Summarize(diff)

SpecSummary == InitSummary /\ [][NextSummary]_vars

\* ------------------------------------------------ claims about callPlugin
Called(i) == inv[i].phase = "called"
WarnTimer(i) == timers[inv[i].warn]

\* C1: a direct-style hook (one declared parameter) that returns a value
\* which is no awaitable gives an operation resolved with that value at
\* once, its watchdog timer cancelled without a single warning.
C1_DirectValueResolvesAtOnce ==
  \A i \in DOMAIN inv :
    (Called(i) /\ inv[i].plugin.length = 1 /\ ~isPromise(inv[i].ret))
      => /\ inv[i].out = Resolved(inv[i].ret)
         /\ ~WarnTimer(i).live
         /\ WarnTimer(i).fires = 0

\* C2: every failure of an invocation (the hook throws while being called,
\* the awaitable it returned rejects, the completion callback is called
\* with an error) is a rejection of the returned operation with that error.
C2_FailuresRejectWithOriginalError ==
  \A i \in DOMAIN inv :
    /\ inv[i].phase = "threw" => inv[i].out = Rejected(inv[i].thrown)
    /\ (Called(i) /\ inv[i].result.st = "rejected")
         => inv[i].out = Rejected(inv[i].result.v)
    /\ (Called(i) /\ inv[i].firstCb # NoCall /\ inv[i].firstCb[1].t = "error")
         => inv[i].out = Rejected(inv[i].firstCb[1])

CallbackStyleArgs(i) ==
  inv[i].args = <<File(i).data, [t |-> "string", v |-> File(i).path],
                  CompletionCallback>>

GenIdx == DOMAIN logIn.generatedFiles
TouchedIdx(g) ==
  {k \in DOMAIN logIn.generatedFiles[g].sourceFiles :
     logIn.generatedFiles[g].sourceFiles[k].compilationTime >= logIn.startTime}
IsDisposed(g) == logIn.generatedFiles[g] \in logIn.disposedFiles.generated
\* "Changed this pass", as the data model words it.
ChangedThisPass(g) == TouchedIdx(g) # {} \/ IsDisposed(g)
CompiledNames ==
  UNION { {getName(logIn.generatedFiles[g].sourceFiles[k]) : k \in TouchedIdx(g)} :
          g \in GenIdx }
CopiedIdx == {a \in DOMAIN logIn.allAssets : logIn.allAssets[a].copyTime > logIn.startTime}
Elapsed == " in " \o diffText(logOut.diff)

\* C6: a generated file, also one without source files, is among the changed
\* ones (`generated`) exactly when one of its source files was compiled at or
\* after startTime or the file itself is listed in disposed.generated.
C6_ChangedIffTouchedOrDisposed ==
  logOut.done =>
    \A g \in GenIdx :
      Includes(logOut.generated, getName(logIn.generatedFiles[g])) <=> ChangedThisPass(g)

\* Scenario A for generated file g: it alone changed, k > 1 of its source
\* files, of distinct base names, were compiled, the others were not, no
\* asset was copied and nothing was disposed.
ScenarioA(g) ==
  /\ \A h \in GenIdx : ChangedThisPass(h) <=> h = g
  /\ Cardinality(TouchedIdx(g)) > 1
  /\ Cardinality(CompiledNames) = Cardinality(TouchedIdx(g))
  /\ Len(logIn.generatedFiles[g].sourceFiles) > Cardinality(TouchedIdx(g))
  /\ CopiedIdx = {}
  /\ logIn.disposedFiles.generated = {}
  /\ logIn.disposedFiles.sourcePaths = <<>>

WithCompiled == {g \in GenIdx : TouchedIdx(g) # {}}
ScenarioC ==
  /\ Cardinality(WithCompiled) > 1
  /\ \A g \in GenIdx : ChangedThisPass(g) =>
       TouchedIdx(g) = DOMAIN logIn.generatedFiles[g].sourceFiles
  /\ Cardinality(CompiledNames) > 1
  /\ Cardinality(CopiedIdx) > 1

C3_WatchdogWarnsOnlyWhilePending ==
  /\ [](\A i \in DOMAIN inv :
          (Called(i) /\ Settled(inv[i].out)) =>
            /\ ~WarnTimer(i).live
            /\ inv[i].settledAt < inv[i].startedAt + warningLogInterval
                 => WarnTimer(i).fires = 0
            /\ inv[i].settledAt > inv[i].startedAt + 2 * warningLogInterval
                 => WarnTimer(i).fires >= 2)
  /\ [][\A i \in DOMAIN inv :
          (Called(i) /\ Settled(inv[i].out)) =>
            timers'[inv[i].warn].fires = WarnTimer(i).fires]_vars

\* An operation that failed after more than two intervals and two warnings.
C3_Witness ==
  \E i \in DOMAIN inv :
    /\ Called(i) /\ inv[i].out.st = "rejected"
    /\ inv[i].settledAt > inv[i].startedAt + 2 * warningLogInterval
    /\ WarnTimer(i).fires >= 2 /\ ~WarnTimer(i).live
    /\ now > inv[i].settledAt

\* C10: invocations outstanding together own one timer each and share
\* nothing: a timer is live exactly while its own invocation is pending and
\* then warns every interval with its own message, a settlement changes
\* neither another invocation nor its timer, and each operation settles as
\* its own hook's promise did.
C10_InvocationsAreIndependent ==
  /\ [](\A i \in DOMAIN inv : Called(i) =>
          /\ inv[i].warn \in DOMAIN timers
          /\ \A j \in DOMAIN inv : (j # i /\ Called(j)) => inv[j].warn # inv[i].warn
          /\ WarnTimer(i).msg = TimeoutMessage(inv[i].plugin, inv[i].method, File(i))
          /\ WarnTimer(i).live = (inv[i].out = Pending)
          /\ inv[i].out = Pending =>
               /\ WarnTimer(i).due >= now
               /\ WarnTimer(i).due =
                    inv[i].startedAt + (WarnTimer(i).fires + 1) * warningLogInterval
          /\ Settled(inv[i].out) =>
               /\ inv[i].out = Guarded(inv[i])
               /\ inv[i].out.v.v[2] = i)
  /\ [][\A i \in DOMAIN inv :
          (inv[i].out = Pending /\ Settled(inv'[i].out)) =>
            \A j \in DOMAIN inv : (j # i) =>
              /\ inv'[j] = inv[j]
              /\ Called(j) => timers'[inv[j].warn] = timers[inv[j].warn]]_vars

\* One invocation settled early while another, still pending, has warned
\* twice since.
C10_Witness ==
  \E i, j \in DOMAIN inv :
    /\ i # j /\ Called(i) /\ Called(j)
    /\ Settled(inv[i].out) /\ inv[i].settledAt < warningLogInterval
    /\ inv[j].out = Pending /\ WarnTimer(j).live /\ WarnTimer(j).fires >= 2
    /\ WarnTimer(i).fires = 0
====
